---- MODULE Spec2Model ----
(***************************************************************************)
(* pyprismatic.params.Metadata: the parameter registry of Prismatic, its   *)
(* composite properties, the name = value parameter file it writes and     *)
(* reads, the cell dimensions it takes from the atoms file, and the        *)
(* ordered argument list it hands to pyprismatic.core.go.                  *)
(*                                                                         *)
(* Python values are records [t, v]: t is the Python type, v the value.    *)
(* A float is a decimal m * 10^-e held as <<m, e>> with no trailing zero   *)
(* in m (so equal floats are equal tuples); not-a-number is <<>>.  Text    *)
(* is a TLA+ string; "\n" is the newline character.                        *)
(***************************************************************************)
EXTENDS FiniteSets, Integers, Sequences, TLC

VARIABLES
  attrs,  \* the instance dictionary of the Metadata object: name -> value
  fs,     \* the files on disk: path -> the lines of the file
  src,    \* the instance dictionary writeParameters last wrote out, <<>> before
  nset,   \* attribute assignments the caller has made so far
  ncall,  \* calls of readParameters, writeParameters and go made so far
  last    \* the last call: what it was, the state before it, what it let out

vars == <<attrs, fs, src, nset, ncall, last>>

\* --------------------------------------------------------------- bounds

MaxSets == 1

MaxCalls == 2

\* --------------------------------------------------------------- values

PyInt(n) == [t |-> "int", v |-> n]

PyBool(b) == [t |-> "bool", v |-> b]

PyStr(s) == [t |-> "str", v |-> s]

PyTuple(items) == [t |-> "tuple", v |-> items]

RECURSIVE Normal(_, _)
Normal(m, e) ==
  IF e > 0 /\ m % 10 = 0 THEN Normal(m \div 10, e - 1) ELSE <<m, e>>

PyFloat(m, e) == [t |-> "float", v |-> Normal(m, e)]

NaN == [t |-> "float", v |-> <<>>]

IsNaN(x) == x.t = "float" /\ x.v = <<>>

\* The float a number stands for: 80 and 80.0 are numerically equal.
AsFloat(x) == IF x.t = "int" THEN PyFloat(x.v, 0) ELSE x

NumEq(x, y) ==
  /\ x.t \in {"int", "float"}
  /\ y.t \in {"int", "float"}
  /\ AsFloat(x) = AsFloat(y)

\* ----------------------------------------------------------------- text

Char(s, i) == SubSeq(s, i, i)

Min(S) == CHOOSE i \in S : \A j \in S : i <= j

Max(S) == CHOOSE i \in S : \A j \in S : j <= i

Digits == "0123456789"

Upper == "ABCDEFGHIJKLMNOPQRSTUVWXYZ"

Lower == "abcdefghijklmnopqrstuvwxyz"

Whitespace == {" ", "\n", "\t", "\r"}

Index(c, alphabet) ==
  IF \E i \in 1..Len(alphabet) : Char(alphabet, i) = c
  THEN CHOOSE i \in 1..Len(alphabet) : Char(alphabet, i) = c
  ELSE 0

IsDigits(s) == \A i \in 1..Len(s) : Index(Char(s, i), Digits) > 0

RECURSIVE Pow10(_)
Pow10(e) == IF e = 0 THEN 1 ELSE 10 * Pow10(e - 1)

RECURSIVE NatStr(_)
NatStr(n) ==
  IF n < 10 THEN Char(Digits, n + 1)
  ELSE NatStr(n \div 10) \o Char(Digits, (n % 10) + 1)

RECURSIVE NatVal(_)
NatVal(s) ==
  IF s = "" THEN 0
  ELSE 10 * NatVal(SubSeq(s, 1, Len(s) - 1)) + Index(Char(s, Len(s)), Digits) - 1

RECURSIVE Zeros(_)
Zeros(n) == IF n <= 0 THEN "" ELSE "0" \o Zeros(n - 1)

Abs(n) == IF n < 0 THEN -n ELSE n

\* str(int)
IntStr(n) == IF n < 0 THEN "-" \o NatStr(-n) ELSE NatStr(n)

\* str(float): repr in positional notation, at least one fractional digit.
FloatStr(x) ==
  IF x.v = <<>> THEN "nan"
  ELSE LET m == x.v[1]
           e == x.v[2]
           whole == Abs(m) \div Pow10(e)
           frac == NatStr(Abs(m) % Pow10(e))
           sign == IF m < 0 THEN "-" ELSE ""
       IN  IF e = 0 THEN sign \o NatStr(whole) \o ".0"
           ELSE sign \o NatStr(whole) \o "." \o Zeros(e - Len(frac)) \o frac

RECURSIVE pystr(_)
RECURSIVE JoinRepr(_, _)
\* repr(x), as str(tuple) renders its items
pyrepr(x) == IF x.t = "str" THEN "'" \o x.v \o "'" ELSE pystr(x)

JoinRepr(items, i) ==
  IF i > Len(items) THEN ""
  ELSE pyrepr(items[i])
       \o (IF i < Len(items) THEN ", " ELSE IF Len(items) = 1 THEN "," ELSE "")
       \o JoinRepr(items, i + 1)

\* "{}".format(x)
pystr(x) ==
  CASE x.t = "int" -> IntStr(x.v)
    [] x.t = "float" -> FloatStr(x)
    [] x.t = "bool" -> IF x.v THEN "True" ELSE "False"
    [] x.t = "str" -> x.v
    [] x.t = "tuple" -> "(" \o JoinRepr(x.v, 1) \o ")"

\* s.strip()
Strip(s) ==
  LET keep == {i \in 1..Len(s) : Char(s, i) \notin Whitespace}
  IN  IF keep = {} THEN ""
      ELSE SubSeq(s, Min(keep), Max(keep))

RECURSIVE LowerStr(_)
\* s.lower()
LowerStr(s) ==
  IF s = "" THEN ""
  ELSE LET c == Char(s, 1)
           k == Index(c, Upper)
       IN  (IF k > 0 THEN Char(Lower, k) ELSE c) \o LowerStr(SubSeq(s, 2, Len(s)))

\* sub in s
Contains(sub, s) ==
  \E i \in 1..(Len(s) - Len(sub) + 1) : SubSeq(s, i, i + Len(sub) - 1) = sub

\* Where sub starts in s.
Occurs(sub, s) ==
  {i \in 1..(Len(s) - Len(sub) + 1) : SubSeq(s, i, i + Len(sub) - 1) = sub}

RECURSIVE Find(_, _, _)
\* s.find(sub, from), counted from 1; 0 when there is none
Find(sub, s, from) ==
  IF from + Len(sub) - 1 > Len(s) THEN 0
  ELSE IF SubSeq(s, from, from + Len(sub) - 1) = sub THEN from
  ELSE Find(sub, s, from + 1)

Unsigned(s) ==
  IF s # "" /\ Char(s, 1) \in {"-", "+"} THEN SubSeq(s, 2, Len(s)) ELSE s

Negative(s) == s # "" /\ Char(s, 1) = "-"

\* int(s): [ok, val]; not ok is ValueError
int(s) ==
  LET b == Strip(s)
      d == Unsigned(b)
  IN  IF d # "" /\ IsDigits(d)
      THEN [ok |-> TRUE, val |-> PyInt(IF Negative(b) THEN -NatVal(d) ELSE NatVal(d))]
      ELSE [ok |-> FALSE, val |-> PyInt(0)]

\* float(s): [ok, val]; not ok is ValueError.  Positional notation and nan
\* are read; the exponent and inf forms, which str never gives to the
\* values of this model, are not.
float(s) ==
  LET b == Strip(s)
      d == Unsigned(b)
      dot == Find(".", d, 1)
      whole == IF dot = 0 THEN d ELSE SubSeq(d, 1, dot - 1)
      frac == IF dot = 0 THEN "" ELSE SubSeq(d, dot + 1, Len(d))
      m == NatVal(whole \o frac)
  IN  IF LowerStr(d) = "nan" THEN [ok |-> TRUE, val |-> NaN]
      ELSE IF whole \o frac # "" /\ IsDigits(whole) /\ IsDigits(frac)
      THEN [ok |-> TRUE, val |-> PyFloat(IF Negative(b) THEN -m ELSE m, Len(frac))]
      ELSE [ok |-> FALSE, val |-> NaN]

\* A reader that takes the text for the literal it spells.
bool_literal(s) == PyBool(Strip(s) = "True")

\* bool(s) of a text
bool(s) == PyBool(s # "")

RECURSIVE SplitWS(_, _)
\* s.split(): the whitespace-separated tokens of s from position i on
SplitWS(s, i) ==
  IF i > Len(s) THEN <<>>
  ELSE IF Char(s, i) \in Whitespace THEN SplitWS(s, i + 1)
  ELSE LET stop == IF \E j \in i..Len(s) : Char(s, j) \in Whitespace
                   THEN CHOOSE j \in i..Len(s) :
                          /\ Char(s, j) \in Whitespace
                          /\ \A k \in i..(j - 1) : Char(s, k) \notin Whitespace
                   ELSE Len(s) + 1
       IN  <<SubSeq(s, i, stop - 1)>> \o SplitWS(s, stop)

RECURSIVE Lines(_)
\* A text as a file holds it: its lines, each with the newline that ends it
\* (the last one may have none).
Lines(text) ==
  LET nl == Find("\n", text, 1)
  IN  IF text = "" THEN <<>>
      ELSE IF nl = 0 THEN <<text>>
      ELSE <<SubSeq(text, 1, nl)>> \o Lines(SubSeq(text, nl + 1, Len(text)))

\* inf.readline() for the i-th time: "" at the end of the file
ReadLine(lines, i) == IF i > Len(lines) THEN "" ELSE lines[i]

\* os.path.splitext(path)[0]
SplitExtRoot(path) ==
  LET dots == {i \in 2..Len(path) :
                 /\ Char(path, i) = "."
                 /\ \A j \in i..Len(path) : Char(path, j) # "/"
                 /\ \E j \in 1..(i - 1) : Char(path, j) \notin {".", "/"}
                 /\ Char(path, i - 1) # "/"}
  IN  IF dots = {} THEN path
      ELSE SubSeq(path, 1, Max(dots) - 1)

\* ------------------------------------------------------------- registry

fields ==
  <<
    "interpolationFactorX", "interpolationFactorY", "filenameAtoms", "filenameOutput",
    "realspacePixelSizeX", "realspacePixelSizeY", "potBound", "numFP",
    "sliceThickness", "zSampling", "numSlices", "zStart", "cellDimX", "cellDimY",
    "cellDimZ", "tileX", "tileY", "tileZ", "E0", "alphaBeamMax", "numGPUs",
    "numStreamsPerGPU", "numThreads", "batchSizeTargetCPU", "batchSizeTargetGPU",
    "earlyCPUStopCount", "probeStepX", "probeStepY", "probeDefocus",
    "probeDefocus_min", "probeDefocus_max", "probeDefocus_step", "probeDefocus_sigma",
    "C3", "C5", "aberrations_file", "probeSemiangle", "detectorAngleStep",
    "probeXtilt", "probeYtilt", "minXtilt", "maxXtilt", "minYtilt", "maxYtilt",
    "minRtilt", "maxRtilt", "xTiltOffset", "yTiltOffset", "xTiltStep", "yTiltStep",
    "scanWindowXMin", "scanWindowXMax", "scanWindowYMin", "scanWindowYMax",
    "scanWindowXMin_r", "scanWindowXMax_r", "scanWindowYMin_r", "scanWindowYMax_r",
    "probes_file", "randomSeed", "algorithm", "potential3D", "includeThermalEffects",
    "includeOccupancy", "alsoDoCPUWork", "save2DOutput", "save3DOutput",
    "save4DOutput", "integrationAngleMin", "integrationAngleMax", "transferMode",
    "saveDPC_CoM", "savePotentialSlices", "saveSMatrix", "crop4DOutput", "crop4Damax",
    "nyquistSampling", "importPotential", "importSMatrix", "saveProbe",
    "saveComplexOutputWave", "matrixRefocus", "importFile", "importPath", "maxFileSize"
  >>

str_fields ==
  {
    "algorithm", "transferMode", "aberrations_file", "probes_file", "importFile",
    "importPath"
  }

int_fields ==
  {
    "interpolationFactorX", "interpolationFactorY", "tileX", "tileY", "tileZ", "numFP",
    "numGPUs", "numStreamsPerGPU", "numThreads", "batchSizeTargetCPU",
    "batchSizeTargetGPU", "batchSizeCPU", "batchSizeGPU", "numSlices", "zSampling",
    "maxFileSize"
  }

float_fields ==
  {
    "realspacePixelSizeX", "realspacePixelSizeY", "potBound", "sliceThickness", "E0",
    "alphaBeamMax", "earlyCPUStopCount", "probeStepX", "probeStepY", "probeDefocus",
    "probeDefocus_min", "probeDefocus_max", "probeDefocus_step", "probeDefocus_sigma",
    "C3", "C5", "probeSemiangle", "detectorAngleStep", "probeXtilt", "probeYtilt",
    "minXtilt", "maxXtilt", "minYtilt", "maxYtilt", "minRtilt", "maxRtilt",
    "xTiltOffset", "yTiltOffset", "xTiltStep", "yTiltStep", "scanWindowXMin",
    "scanWindowXMax", "scanWindowYMin", "scanWindowYMax", "scanWindowXMin_r",
    "scanWindowXMax_r", "scanWindowYMin_r", "scanWindowYMax_r", "integrationAngleMin",
    "integrationAngleMax", "zStart", "crop4Damax"
  }

\* The assignments self.<name> = <default> of __init__, by name; seed is what
\* np.random.randint(0, 999999) gives.
defaults(seed) ==
  [
    interpolationFactorX |-> PyInt(4),
    interpolationFactorY |-> PyInt(4),
    filenameAtoms |-> PyStr(""),
    filenameOutput |-> PyStr("output.h5"),
    realspacePixelSizeX |-> PyFloat(1, 1),
    realspacePixelSizeY |-> PyFloat(1, 1),
    potBound |-> PyFloat(3, 0),
    numFP |-> PyInt(1),
    sliceThickness |-> PyFloat(2, 0),
    zSampling |-> PyInt(16),
    numSlices |-> PyInt(0),
    zStart |-> PyFloat(0, 0),
    cellDimX |-> PyFloat(20, 0),
    cellDimY |-> PyFloat(20, 0),
    cellDimZ |-> PyFloat(20, 0),
    tileX |-> PyInt(1),
    tileY |-> PyInt(1),
    tileZ |-> PyInt(1),
    E0 |-> PyInt(80),
    alphaBeamMax |-> PyInt(24),
    numGPUs |-> PyInt(4),
    numStreamsPerGPU |-> PyInt(3),
    numThreads |-> PyInt(12),
    batchSizeTargetCPU |-> PyInt(1),
    batchSizeTargetGPU |-> PyInt(1),
    batchSizeCPU |-> PyInt(1),
    batchSizeGPU |-> PyInt(1),
    earlyCPUStopCount |-> PyInt(100),
    probeStepX |-> PyFloat(25, 2),
    probeStepY |-> PyFloat(25, 2),
    probeDefocus |-> NaN,
    probeDefocus_min |-> PyFloat(0, 0),
    probeDefocus_max |-> PyFloat(0, 0),
    probeDefocus_step |-> PyFloat(0, 0),
    probeDefocus_sigma |-> PyFloat(0, 0),
    C3 |-> NaN,
    C5 |-> NaN,
    aberrations_file |-> PyStr(""),
    probeSemiangle |-> PyFloat(20, 0),
    detectorAngleStep |-> PyFloat(1, 0),
    probeXtilt |-> PyFloat(0, 0),
    probeYtilt |-> PyFloat(0, 0),
    minXtilt |-> PyFloat(0, 0),
    maxXtilt |-> PyFloat(0, 0),
    minYtilt |-> PyFloat(0, 0),
    maxYtilt |-> PyFloat(0, 0),
    minRtilt |-> PyFloat(0, 0),
    maxRtilt |-> PyFloat(0, 0),
    xTiltOffset |-> PyFloat(0, 0),
    yTiltOffset |-> PyFloat(0, 0),
    xTiltStep |-> PyFloat(1, 0),
    yTiltStep |-> PyFloat(1, 0),
    scanWindowXMin |-> PyFloat(0, 0),
    scanWindowXMax |-> PyFloat(99999, 5),
    scanWindowYMin |-> PyFloat(0, 0),
    scanWindowYMax |-> PyFloat(99999, 5),
    scanWindowXMin_r |-> PyFloat(0, 0),
    scanWindowXMax_r |-> PyFloat(0, 0),
    scanWindowYMin_r |-> PyFloat(0, 0),
    scanWindowYMax_r |-> PyFloat(0, 0),
    probes_file |-> PyStr(""),
    randomSeed |-> PyInt(seed),
    algorithm |-> PyStr("prism"),
    potential3D |-> PyBool(TRUE),
    includeThermalEffects |-> PyBool(TRUE),
    includeOccupancy |-> PyBool(TRUE),
    alsoDoCPUWork |-> PyBool(TRUE),
    save2DOutput |-> PyBool(FALSE),
    integrationAngleMin |-> PyInt(0),
    integrationAngleMax |-> PyFloat(1, 0),
    save3DOutput |-> PyBool(TRUE),
    save4DOutput |-> PyBool(FALSE),
    crop4DOutput |-> PyBool(FALSE),
    crop4Damax |-> PyFloat(100, 0),
    saveDPC_CoM |-> PyBool(FALSE),
    savePotentialSlices |-> PyBool(FALSE),
    saveSMatrix |-> PyBool(FALSE),
    nyquistSampling |-> PyBool(FALSE),
    importPotential |-> PyBool(FALSE),
    importSMatrix |-> PyBool(FALSE),
    saveComplexOutputWave |-> PyBool(FALSE),
    saveProbe |-> PyBool(FALSE),
    maxFileSize |-> PyInt(2000000000),
    matrixRefocus |-> PyBool(FALSE),
    importFile |-> PyStr(""),
    importPath |-> PyStr(""),
    transferMode |-> PyStr("auto")
  ]

FieldSet == {fields[i] : i \in 1..Len(fields)}

\* ------------------------------------------------------- running a call

\* What a call works on and lets out: the instance dictionary, the disk, the
\* exception that ended it ("none": it returned), the lines it printed,
\* the paths it opened, the parameter lines it read to the end, and the
\* argument lists it gave to pyprismatic.core.go.
Ctx(a, files) ==
  [attrs |-> a, fs |-> files, raised |-> "none", out |-> <<>>,
   opened |-> <<>>, done |-> 0, calls |-> <<>>]

Put(f, key, value) ==
  IF key \in DOMAIN f THEN [f EXCEPT ![key] = value] ELSE (key :> value) @@ f

Raise(r, exc) == [r EXCEPT !.raised = exc]

Say(r, text) == [r EXCEPT !.out = Append(@, text)]

Open(r, path) == [r EXCEPT !.opened = Append(@, path)]

\* self.<name> = value for a name that is no property
Store(r, name, value) ==
  IF r.raised # "none" THEN r ELSE [r EXCEPT !.attrs = Put(@, name, value)]

\* self.<name> = vals[i]
StoreItem(r, name, vals, i) ==
  IF r.raised # "none" THEN r
  ELSE IF vals.t \notin {"tuple", "str"} THEN Raise(r, "TypeError")
  ELSE IF i + 1 > Len(vals.v) THEN Raise(r, "IndexError")
  ELSE Store(r, name, IF vals.t = "str" THEN PyStr(Char(vals.v, i + 1))
                      ELSE vals.v[i + 1])

\* --------------------------------------------------- structure-file loader

\* A loader that takes the cell dimensions from the first line of the file.
_setCellDims_firstLine(r, filename) ==
  IF filename \notin DOMAIN r.fs
  THEN Say(Open(r, filename),
           "Could not set cell dimensions from file " \o filename)
  ELSE LET toks == SplitWS(ReadLine(r.fs[filename], 1), 1)
           read == [i \in 1..Len(toks) |-> float(toks[i])]
       IN  IF (\E i \in 1..Len(toks) : ~read[i].ok) \/ Len(toks) # 3
           THEN Raise(Open(r, filename), "ValueError")
           ELSE Store(Store(Store(Open(r, filename),
                                  "cellDimX", read[1].val),
                            "cellDimY", read[2].val),
                      "cellDimZ", read[3].val)

_setCellDims(r, filename) ==
  IF filename \notin DOMAIN r.fs
  THEN Say(Open(r, filename),
           "Could not set cell dimensions from file " \o filename)
  ELSE LET inf == r.fs[filename]
           first == ReadLine(inf, 1)
           second == ReadLine(inf, 2)
           toks == SplitWS(second, 1)
           read == [i \in 1..Len(toks) |-> float(toks[i])]
       IN  IF (\E i \in 1..Len(toks) : ~read[i].ok) \/ Len(toks) # 3
           THEN Raise(Open(r, filename), "ValueError")
           ELSE Store(Store(Store(Open(r, filename),
                                  "cellDimX", read[1].val),
                            "cellDimY", read[2].val),
                      "cellDimZ", read[3].val)

filenameAtoms_get(a) == a["_filenameAtoms"]

filenameAtoms_set(r, filenameAtoms) ==
  IF filenameAtoms # PyStr("")
  THEN _setCellDims(Store(r, "_filenameAtoms", filenameAtoms), filenameAtoms.v)
  ELSE r

\* --------------------------------------------------- convenience properties

interpolationFactor_get(a) ==
  PyTuple(<<a["interpolationFactorX"], a["interpolationFactorY"]>>)

interpolationFactor_set(r, val) ==
  Store(Store(r, "interpolationFactorX", val), "interpolationFactorY", val)

realspacePixelSize_get(a) ==
  PyTuple(<<a["realspacePixelSizeX"], a["realspacePixelSizeY"]>>)

realspacePixelSize_set(r, val) ==
  Store(Store(r, "realspacePixelSizeX", val), "realspacePixelSizeY", val)

cellDim_get(a) == PyTuple(<<a["cellDimX"], a["cellDimY"], a["cellDimZ"]>>)

cellDim_set(r, vals) ==
  StoreItem(StoreItem(StoreItem(r, "cellDimX", vals, 0), "cellDimY", vals, 1),
            "cellDimZ", vals, 2)

tile_get(a) == PyTuple(<<a["tileX"], a["tileY"], a["tileZ"]>>)

\* A setter that crosses the second and third component.
tile_set_crossed(r, vals) ==
  StoreItem(StoreItem(StoreItem(r, "tileX", vals, 0), "tileY", vals, 2),
            "tileZ", vals, 1)

tile_set(r, vals) ==
  StoreItem(StoreItem(StoreItem(r, "tileX", vals, 0), "tileY", vals, 1),
            "tileZ", vals, 2)

probeStep_get(a) == PyTuple(<<a["probeStepX"], a["probeStepY"]>>)

probeStep_set(r, val) ==
  Store(Store(r, "probeStepX", val), "probeStepY", val)

probetilt_get(a) == PyTuple(<<a["probeXtilt"], a["probeYtilt"]>>)

probetilt_set(r, val) ==
  Store(Store(r, "probeXtilt", val), "probeYtilt", val)

scanWindowX_get(a) == PyTuple(<<a["scanWindowXMin"], a["scanWindowXMax"]>>)

scanWindowX_set(r, vals) ==
  StoreItem(StoreItem(r, "scanWindowXMin", vals, 0), "scanWindowXMax", vals, 1)

scanWindowY_get(a) == PyTuple(<<a["scanWindowYMin"], a["scanWindowYMax"]>>)

scanWindowY_set(r, vals) ==
  StoreItem(StoreItem(r, "scanWindowYMin", vals, 0), "scanWindowYMax", vals, 1)

scanWindowX_r_get(a) ==
  PyTuple(<<a["scanWindowXMin_r"], a["scanWindowXMax_r"]>>)

scanWindowX_r_set(r, vals) ==
  StoreItem(StoreItem(r, "scanWindowXMin_r", vals, 0),
            "scanWindowXMax_r", vals, 1)

scanWindowY_r_get(a) ==
  PyTuple(<<a["scanWindowYMin_r"], a["scanWindowYMax_r"]>>)

scanWindowY_r_set(r, vals) ==
  StoreItem(StoreItem(r, "scanWindowYMin_r", vals, 0),
            "scanWindowYMax_r", vals, 1)

\* The composite properties and the fields each one stands for, in order.
Composite ==
  [interpolationFactor |-> <<"interpolationFactorX", "interpolationFactorY">>,
   realspacePixelSize |-> <<"realspacePixelSizeX", "realspacePixelSizeY">>,
   cellDim |-> <<"cellDimX", "cellDimY", "cellDimZ">>,
   tile |-> <<"tileX", "tileY", "tileZ">>,
   probeStep |-> <<"probeStepX", "probeStepY">>,
   probetilt |-> <<"probeXtilt", "probeYtilt">>,
   scanWindowX |-> <<"scanWindowXMin", "scanWindowXMax">>,
   scanWindowY |-> <<"scanWindowYMin", "scanWindowYMax">>,
   scanWindowX_r |-> <<"scanWindowXMin_r", "scanWindowXMax_r">>,
   scanWindowY_r |-> <<"scanWindowYMin_r", "scanWindowYMax_r">>]

\* ------------------------------------------------------ attribute access

\* hasattr(self, name)
hasattr(a, name) ==
  CASE name = "filenameAtoms" -> "_filenameAtoms" \in DOMAIN a
    [] name \in DOMAIN Composite -> TRUE
    [] OTHER -> name \in DOMAIN a

\* getattr(self, name), where hasattr(self, name)
getattr(a, name) ==
  CASE name = "filenameAtoms" -> filenameAtoms_get(a)
    [] name = "interpolationFactor" -> interpolationFactor_get(a)
    [] name = "realspacePixelSize" -> realspacePixelSize_get(a)
    [] name = "cellDim" -> cellDim_get(a)
    [] name = "tile" -> tile_get(a)
    [] name = "probeStep" -> probeStep_get(a)
    [] name = "probetilt" -> probetilt_get(a)
    [] name = "scanWindowX" -> scanWindowX_get(a)
    [] name = "scanWindowY" -> scanWindowY_get(a)
    [] name = "scanWindowX_r" -> scanWindowX_r_get(a)
    [] name = "scanWindowY_r" -> scanWindowY_r_get(a)
    [] OTHER -> a[name]

\* setattr(self, name, value): a property's setter, else the dictionary
setattr(r, name, value) ==
  IF r.raised # "none" THEN r
  ELSE CASE name = "filenameAtoms" -> filenameAtoms_set(r, value)
         [] name = "interpolationFactor" -> interpolationFactor_set(r, value)
         [] name = "realspacePixelSize" -> realspacePixelSize_set(r, value)
         [] name = "cellDim" -> cellDim_set(r, value)
         [] name = "tile" -> tile_set(r, value)
         [] name = "probeStep" -> probeStep_set(r, value)
         [] name = "probetilt" -> probetilt_set(r, value)
         [] name = "scanWindowX" -> scanWindowX_set(r, value)
         [] name = "scanWindowY" -> scanWindowY_set(r, value)
         [] name = "scanWindowX_r" -> scanWindowX_r_set(r, value)
         [] name = "scanWindowY_r" -> scanWindowY_r_set(r, value)
         [] OTHER -> Store(r, name, value)

\* ------------------------------------------------------------ construction

\* The assignments self.<name> = <default>: the names that are no property go
\* to the dictionary, the atoms file goes through its setter.
AssignDefaults(r, d) ==
  filenameAtoms_set(
    [r EXCEPT !.attrs = [name \in DOMAIN d \ {"filenameAtoms"} |-> d[name]]],
    d["filenameAtoms"])

RECURSIVE AssignOverrides(_, _, _)
\* for k, v in kwargs.items()
AssignOverrides(r, kwargs, i) ==
  IF i > Len(kwargs) \/ r.raised # "none" THEN r
  ELSE LET k == kwargs[i][1]
           v == kwargs[i][2]
       IN  AssignOverrides(
             IF k \notin FieldSet
             THEN Say(r, "Invalid metaparameter \"" \o k \o "\" provided")
             ELSE setattr(r, k, v),
             kwargs, i + 1)

\* Metadata(**kwargs) on a new object; seed is what np.random.randint gives
__init__(files, seed, kwargs) ==
  AssignOverrides(AssignDefaults(Ctx(<<>>, files), defaults(seed)), kwargs, 1)

\* ------------------------------------------------------------- serializer

\* One turn of the while loop of readParameters, on a line of the file:
\* line.split(" = ") must give two parts, the text before the first " = "
\* and the text after it with no further " = ".
ReadOne(r, line) ==
  LET seps == Occurs(" = ", line)
      at == Min(seps)
      field == SubSeq(line, 1, at - 1)
      value == SubSeq(line, at + 3, Len(line))
      got == CASE field \in str_fields -> [ok |-> TRUE, val |-> PyStr(value)]
               [] field \in int_fields -> int(value)
               [] field \in float_fields -> float(value)
               [] OTHER -> [ok |-> TRUE, val |-> bool(value)]
  IN  IF r.raised # "none" THEN r
      ELSE IF seps = {} \/ (\E i \in seps : i >= at + 3) THEN Raise(r, "ValueError")
      ELSE IF ~got.ok THEN Raise(r, "ValueError")
      ELSE LET r2 == setattr(r, field, got.val)
           IN  IF r2.raised # "none" THEN r2 ELSE [r2 EXCEPT !.done = @ + 1]

RECURSIVE ReadLoop(_, _, _, _)
\* The while loop of readParameters on the lines lo..hi of the file, taken in
\* order (first those of the lower half, then those of the upper half); an
\* exception ends it.
ReadLoop(r, inf, lo, hi) ==
  IF lo > hi \/ r.raised # "none" THEN r
  ELSE IF lo = hi THEN ReadOne(r, ReadLine(inf, lo))
  ELSE LET mid == (lo + hi) \div 2
           half == ReadLoop(r, inf, lo, mid)
       IN  IF half.raised # "none" THEN half ELSE ReadLoop(half, inf, mid + 1, hi)

readParameters(r, filename) ==
  IF filename \notin DOMAIN r.fs
  THEN Raise(Say(Open(r, filename),
                 "Could not open parameter file " \o filename),
             "UnboundLocalError")
  ELSE ReadLoop(Open(r, filename), r.fs[filename], 1, Len(r.fs[filename]))

\* A test that lets the cell dimensions into the parameter file.
Written_cellDim(field) ==
  /\ ~Contains("save", field)
  /\ ~Contains("filename", field)

\* the test that lets a field into the parameter file
Written(field) ==
  /\ ~Contains("save", field)
  /\ ~Contains("filename", field)
  /\ ~Contains("cellDim", field)

\* The fields of the registry, each with whether it is let into the file.
included == [i \in 1..Len(fields) |-> Written(fields[i])]

\* outf.write("{} = {}\n".format(field, value)): the lines it adds.  The text
\* of a number or a boolean holds no newline of its own.
WriteOne(field, value) ==
  LET text == field \o " = " \o pystr(value) \o "\n"
  IN  IF value.t \in {"int", "float", "bool"} THEN <<text>> ELSE Lines(text)

RECURSIVE WriteLoop_unordered(_, _, _)
\* A loop that takes the fields in another order than the registry's.
WriteLoop_unordered(a, lo, hi) ==
  IF lo > hi THEN <<>>
  ELSE IF lo = hi
  THEN IF included[lo] THEN WriteOne(fields[lo], getattr(a, fields[lo])) ELSE <<>>
  ELSE LET mid == (lo + hi) \div 2
       IN  WriteLoop_unordered(a, mid + 1, hi) \o WriteLoop_unordered(a, lo, mid)

RECURSIVE WriteLoop(_, _, _)
\* The for loop of writeParameters over the fields lo..hi, in order: the
\* lines written.
WriteLoop(a, lo, hi) ==
  IF lo > hi THEN <<>>
  ELSE IF lo = hi
  THEN IF included[lo] THEN WriteOne(fields[lo], getattr(a, fields[lo])) ELSE <<>>
  ELSE LET mid == (lo + hi) \div 2
       IN  WriteLoop(a, lo, mid) \o WriteLoop(a, mid + 1, hi)

\* Paths under which no file can be made.
Unwritable == {"nodir/params.txt"}

writeParameters(r, filename) ==
  IF filename \in Unwritable
  THEN Raise(Say(Open(r, filename),
                 "Could not open parameter file " \o filename),
             "UnboundLocalError")
  ELSE [Open(r, filename) EXCEPT !.fs = Put(@, filename, WriteLoop(r.attrs, 1, Len(fields)))]

\* ---------------------------------------------------------- engine invoker

\* self.<name> = self.<name>.lower()
LowerInPlace(r, name) ==
  IF r.raised # "none" THEN r
  ELSE IF r.attrs[name].t # "str" THEN Raise(r, "AttributeError")
  ELSE Store(r, name, PyStr(LowerStr(r.attrs[name].v)))

\* [getattr(self, field) for field in Metadata.fields]
ArgList(a) == [i \in 1..Len(fields) |-> getattr(a, fields[i])]

\* The run time is the wall clock's; its text stands for whatever it reads.
Elapsed == "00:00:01 (     1 s)"

total_time(a) ==
  "The simulation time of " \o pystr(a["filenameOutput"]) \o " was: " \o Elapsed

\* A go that collects the arguments before it lower-cases the two names.
go_stale(r, display_run_time, save_run_time, engine_ok) ==
  LET r1 == LowerInPlace(LowerInPlace(r, "algorithm"), "transferMode")
      a == r1.attrs
      r2 == [r1 EXCEPT !.calls = Append(@, ArgList(r.attrs))]
      r3 == IF display_run_time THEN Say(r2, total_time(a)) ELSE r2
  IN  IF r1.raised # "none" THEN r1
      ELSE IF \E i \in 1..Len(fields) : ~hasattr(a, fields[i])
      THEN Raise(r1, "AttributeError")
      ELSE IF ~engine_ok THEN Raise(r2, "RuntimeError")
      ELSE IF save_run_time
      THEN [r3 EXCEPT !.fs = Put(@, SplitExtRoot(a["filenameOutput"].v)
                                      \o "-timing.txt", Lines(total_time(a)))]
      ELSE r3

\* go(display_run_time, save_run_time); engine_ok: pyprismatic.core.go returns
go(r, display_run_time, save_run_time, engine_ok) ==
  LET r1 == LowerInPlace(LowerInPlace(r, "algorithm"), "transferMode")
      a == r1.attrs
      r2 == [r1 EXCEPT !.calls = Append(@, ArgList(a))]
      r3 == IF display_run_time THEN Say(r2, total_time(a)) ELSE r2
  IN  IF r1.raised # "none" THEN r1
      ELSE IF \E i \in 1..Len(fields) : ~hasattr(a, fields[i])
      THEN Raise(r1, "AttributeError")
      ELSE IF ~engine_ok THEN Raise(r2, "RuntimeError")
      ELSE IF save_run_time
      THEN [r3 EXCEPT !.fs = Put(@, SplitExtRoot(a["filenameOutput"].v)
                                      \o "-timing.txt", Lines(total_time(a)))]
      ELSE r3

\* ------------------------------------------------------------ environment

\* The disk at the start: two structure files, a structure file whose
\* second line is short, and a parameter file written by hand.
InitialFiles ==
  ("cell.xyz" :> Lines("Comment line\n10.0 20.0 30.5\n14 0 0 0 1.0 0.08\n-1\n"))
  @@ ("cell2.xyz" :> Lines("another header\n5 6.25 7\n-1\n"))
  @@ ("bad.xyz" :> Lines("two numbers\n1.0 2.0\n"))
  @@ ("hand.txt" :> Lines("numFP = 3\nfoo = 1\nsave3DOutput = False\n"))

\* What np.random.randint(0, 999999) may give.
SeedChoices == {7, 123456}

\* A value other than the default for the i-th field, of the field's kind
\* and telling the fields apart.
Alt(i) ==
  LET name == fields[i]
  IN  CASE name = "filenameAtoms" -> PyStr("cell.xyz")
        [] name = "filenameOutput" -> PyStr("test.mrc")
        [] name = "algorithm" -> PyStr("Multislice")
        [] name = "transferMode" -> PyStr("Streaming")
        [] name = "randomSeed" -> PyInt(i)
        [] name \in str_fields -> PyStr("aux" \o NatStr(i) \o ".txt")
        [] name \in int_fields -> PyInt(100 + i)
        [] name \in float_fields -> PyFloat(10 * i + 5, 1)
        [] Contains("cellDim", name) -> PyFloat(10 * i + 5, 1)
        [] OTHER -> PyBool(~defaults(0)[name].v)

\* The keyword arguments a caller constructs with: none, a few with one
\* that is no field, and one for every field.
KwargsChoices ==
  {<<>>,
   <<<<"interpolationFactorX", PyInt(8)>>, <<"bogus", PyInt(1)>>,
     <<"filenameOutput", PyStr("test.mrc")>>>>,
   [i \in 1..Len(fields) |-> <<fields[i], Alt(i)>>]}

AtomsChoices == {"", "cell.xyz", "cell2.xyz", "bad.xyz", "missing.xyz"}

ReadChoices == {"params.txt", "hand.txt", "missing.txt"}

WriteChoices == {"params.txt", "nodir/params.txt"}

\* The fields a caller assigns to one at a time, some of every kind.
SetChoices ==
  {"numFP", "E0", "probeDefocus", "algorithm", "transferMode", "aberrations_file",
   "filenameOutput", "cellDimX", "save3DOutput", "nyquistSampling", "randomSeed"}

\* The values a caller assigns to a field: of the field's kind, and for the
\* number of frozen phonons one that is no integer.
Choices(name) ==
  CASE name = "algorithm" -> {PyStr("PRISM")}
    [] name = "numFP" -> {PyInt(12), PyFloat(25, 1)}
    [] name = "transferMode" -> {PyStr("SingleXfer")}
    [] name = "filenameOutput" -> {PyStr("run.2/out.h5")}
    [] name = "randomSeed" -> {PyInt(0)}
    [] name \in str_fields -> {PyStr("")}
    [] name \in int_fields -> {PyInt(12)}
    [] name \in float_fields -> {PyFloat(-15, 1), NaN}
    [] Contains("cellDim", name) -> {PyFloat(125, 1)}
    [] OTHER -> {PyBool(TRUE), PyBool(FALSE)}

\* The i-th component a caller writes to a composite property.
Sample(field, i) ==
  IF field \in int_fields THEN PyInt(i + 1) ELSE PyFloat(25 * i, 2)

FullTuple(prop) ==
  PyTuple([i \in 1..Len(Composite[prop]) |-> Sample(Composite[prop][i], i)])

ShortTuple(prop) ==
  PyTuple([i \in 1..(Len(Composite[prop]) - 1) |-> Sample(Composite[prop][i], i)])

CompositeChoices(a, prop) ==
  {FullTuple(prop), ShortTuple(prop), Sample(Composite[prop][1], 3),
   getattr(a, prop)}

\* ---------------------------------------------------------------- actions

Kwargs(kwargs) ==
  PyTuple([i \in 1..Len(kwargs) |-> PyTuple(<<PyStr(kwargs[i][1]), kwargs[i][2]>>)])

Record(op, name, value, before, r) ==
  [op |-> op, name |-> name, value |-> value, pre |-> before,
   raised |-> r.raised, out |-> r.out, opened |-> r.opened,
   done |-> r.done, calls |-> r.calls]

Init ==
  \E seed \in SeedChoices, kwargs \in KwargsChoices :
    LET r == __init__(InitialFiles, seed, kwargs)
    IN  /\ r.raised = "none"
        /\ attrs = r.attrs
        /\ fs = r.fs
        /\ src = <<>>
        /\ nset = 0
        /\ ncall = 0
        /\ last = Record("__init__", "", Kwargs(kwargs), <<>>, r)

\* meta = Metadata(**kwargs): a new object takes the place of the old one,
\* unless its construction raises
Construct ==
  \E seed \in SeedChoices, kwargs \in KwargsChoices :
    LET r == __init__(fs, seed, kwargs)
    IN  /\ attrs' = IF r.raised = "none" THEN r.attrs ELSE attrs
        /\ fs' = r.fs
        /\ last' = Record("__init__", "", Kwargs(kwargs), <<>>, r)
        /\ UNCHANGED <<src, nset, ncall>>

\* meta.<name> = value
SetField ==
  /\ nset < MaxSets
  /\ \E name \in SetChoices :
    \E value \in Choices(name) :
      LET r == setattr(Ctx(attrs, fs), name, value)
      IN  /\ attrs' = r.attrs
          /\ fs' = r.fs
          /\ nset' = nset + 1
          /\ last' = Record("set", name, value, attrs, r)
          /\ UNCHANGED <<src, ncall>>

\* meta.filenameAtoms = path
SetFilenameAtoms ==
  /\ nset < MaxSets
  /\ \E path \in AtomsChoices :
    LET r == setattr(Ctx(attrs, fs), "filenameAtoms", PyStr(path))
    IN  /\ attrs' = r.attrs
        /\ fs' = r.fs
        /\ nset' = nset + 1
        /\ last' = Record("set", "filenameAtoms", PyStr(path), attrs, r)
        /\ UNCHANGED <<src, ncall>>

\* meta.<prop> = value
SetComposite ==
  /\ nset < MaxSets
  /\ \E prop \in DOMAIN Composite :
    \E value \in CompositeChoices(attrs, prop) :
      LET r == setattr(Ctx(attrs, fs), prop, value)
      IN  /\ attrs' = r.attrs
          /\ fs' = r.fs
          /\ nset' = nset + 1
          /\ last' = Record("set", prop, value, attrs, r)
          /\ UNCHANGED <<src, ncall>>

\* meta.readParameters(filename)
ReadParameters ==
  /\ ncall < MaxCalls
  /\ \E filename \in ReadChoices :
    LET r == readParameters(Ctx(attrs, fs), filename)
    IN  /\ attrs' = r.attrs
        /\ fs' = r.fs
        /\ ncall' = ncall + 1
        /\ last' = Record("readParameters", filename, PyStr(filename), attrs, r)
        /\ UNCHANGED <<src, nset>>

\* meta.writeParameters(filename)
WriteParameters ==
  /\ ncall < MaxCalls
  /\ \E filename \in WriteChoices :
    LET r == writeParameters(Ctx(attrs, fs), filename)
    IN  /\ attrs' = r.attrs
        /\ fs' = r.fs
        /\ src' = IF r.raised = "none" THEN <<attrs>> ELSE src
        /\ ncall' = ncall + 1
        /\ last' = Record("writeParameters", filename, PyStr(filename), attrs, r)
        /\ UNCHANGED nset

\* meta.go(display_run_time, save_run_time)
Go ==
  /\ ncall < MaxCalls
  /\ \E display_run_time \in BOOLEAN, save_run_time \in BOOLEAN, engine_ok \in BOOLEAN :
    LET r == go(Ctx(attrs, fs), display_run_time, save_run_time, engine_ok)
    IN  /\ attrs' = r.attrs
        /\ fs' = r.fs
        /\ last' = Record("go", "",
                          PyTuple(<<PyBool(display_run_time), PyBool(save_run_time)>>),
                          attrs, r)
        /\ ncall' = ncall + 1
        /\ UNCHANGED <<src, nset>>

\* Attribute access: construction, fields, the atoms file, the composites.
Next ==
  \/ Construct
  \/ SetField
  \/ SetFilenameAtoms
  \/ SetComposite

Spec == Init /\ [][Next]_vars

\* The parameter file: objects are made and changed, written and read back.
NextFile ==
  \/ Construct
  \/ SetField
  \/ WriteParameters
  \/ ReadParameters

SpecFile == Init /\ [][NextFile]_vars

\* The engine: objects are changed, read from a file, and run.
NextGo ==
  \/ SetField
  \/ SetFilenameAtoms
  \/ SetComposite
  \/ ReadParameters
  \/ Go

SpecGo == Init /\ [][NextGo]_vars


\* ----------------------------------------------------------------- claims

\* The names the claims speak of.
Excluded(field) ==
  \/ Contains("save", field)
  \/ Contains("filename", field)
  \/ Contains("cellDim", field)

Classified == str_fields \cup int_fields \cup float_fields

Broadcast == {"interpolationFactor", "realspacePixelSize", "probeStep", "probetilt"}

\* The fields of the registry that hold a value, and the same value, in a and b.
SameField(a, b, field) ==
  /\ hasattr(a, field) = hasattr(b, field)
  /\ hasattr(a, field) => getattr(a, field) = getattr(b, field)

\* The dictionaries a and b differ at most in the names of the set given.
SameBut(a, b, names) ==
  /\ DOMAIN a \ names = DOMAIN b \ names
  /\ \A n \in DOMAIN a \ names : a[n] = b[n]

\* The last call read the parameter file that writeParameters wrote from the
\* state src[1]; the state it read into is last.pre.
RoundTrip ==
  /\ last.op = "readParameters"
  /\ last.name = "params.txt"
  /\ src # <<>>

\* The last call wrote a composite property a tuple of the property's arity.
FullWrite(prop) ==
  /\ last.op = "set"
  /\ last.name = prop
  /\ last.value.t = "tuple"
  /\ Len(last.value.v) = Len(Composite[prop])

\* C1: when go() reaches the engine it calls it once, with one argument per
\* field of the registry, the i-th being the value the object holds for the
\* i-th field at the time of the call, algorithm and transferMode lower-cased
\* in the object itself.
C1_CanonicalOrder ==
  (last.op = "go" /\ last.calls # <<>>) =>
    /\ Len(last.calls) = 1
    /\ Len(last.calls[1]) = Len(fields)
    /\ \A i \in 1..Len(fields) :
         /\ hasattr(attrs, fields[i])
         /\ last.calls[1][i] = getattr(attrs, fields[i])
    /\ attrs["algorithm"] = PyStr(LowerStr(last.pre["algorithm"].v))
    /\ attrs["transferMode"] = PyStr(LowerStr(last.pre["transferMode"].v))
    /\ SameBut(attrs, last.pre, {"algorithm", "transferMode"})

\* go() reached the engine with names that were not in lower case before.
C1_Witness ==
  /\ last.op = "go"
  /\ last.raised = "none"
  /\ Len(last.calls) = 1
  /\ last.pre["algorithm"] = PyStr("PRISM")
  /\ last.calls[1][61] = PyStr("prism")
  /\ last.calls[1][3] = PyStr("cell.xyz")

\* C2: after Metadata() with no keyword every field of the registry can be
\* read and holds its default.
C2_DefaultIntegrity ==
  (last.op = "__init__" /\ last.value = Kwargs(<<>>)) =>
    \E seed \in SeedChoices :
      \A i \in 1..Len(fields) :
        /\ hasattr(attrs, fields[i])
        /\ getattr(attrs, fields[i]) = defaults(seed)[fields[i]]

\* The names that hold a value in the object, the atoms file under its own.
Stored(a) ==
  {IF n = "_filenameAtoms" THEN "filenameAtoms" ELSE n : n \in DOMAIN a}

\* C3: the names that hold a value in the object are exactly the fields of
\* the registry, in every state.
C3_OnlyRegistryFields == Stored(attrs) = FieldSet

C5_SoftFailure ==
  /\ (last.op = "readParameters" /\ last.name \notin DOMAIN fs) =>
       /\ last.raised = "none"
       /\ Len(last.out) = 1
       /\ attrs = last.pre
  /\ (/\ last.op = "set"
      /\ last.name = "filenameAtoms"
      /\ last.value # PyStr("")
      /\ last.value.v \notin DOMAIN fs) =>
       /\ last.raised = "none"
       /\ Len(last.out) = 1
       /\ attrs = last.pre

\* C6: after a state is written and the file read into another, every
\* written field of integer or float kind holds the number the written state
\* held, and every written field of string kind the very text it held.
C6_TypeFidelity ==
  RoundTrip =>
    \A i \in 1..Len(fields) :
      LET field == fields[i]
      IN  ~Excluded(field) =>
            /\ field \in int_fields \cup float_fields =>
                 NumEq(attrs[field], src[1][field])
            /\ field \in str_fields => attrs[field] = src[1][field]

\* C7: after a state is written and the file read into another, the fields
\* whose name holds "save", "filename" or "cellDim" are as they were before
\* the read.
C7_ExcludedUntouched ==
  RoundTrip =>
    \A i \in 1..Len(fields) :
      Excluded(fields[i]) => SameField(attrs, last.pre, fields[i])

\* A file was read to its end into a state whose output toggles, output file
\* and cell dimensions all differ from those of the state written.
C7_Witness ==
  /\ RoundTrip
  /\ last.done > 70
  /\ \A i \in 1..Len(fields) :
       (Excluded(fields[i]) /\ fields[i] # "filenameAtoms") =>
         attrs[fields[i]] # src[1][fields[i]]

\* The name of a line of a parameter file.
NameOf(line) == SubSeq(line, 1, Min(Occurs(" = ", line)) - 1)

\* C8: every line that readParameters takes in for a field of no string,
\* integer or float kind leaves the field true; so after a read that returns,
\* every such field that writeParameters writes is true, whatever was written.
C8_BooleanCoercion ==
  RoundTrip =>
    /\ \A k \in 1..last.done :
         LET field == NameOf(fs["params.txt"][k])
         IN  field \notin Classified => attrs[field] = PyBool(TRUE)
    /\ last.raised = "none" =>
         \A i \in 1..Len(fields) :
           (~Excluded(fields[i]) /\ fields[i] \notin Classified) =>
             attrs[fields[i]] = PyBool(TRUE)

\* A false toggle and an integer seed were written and read back as true.
C8_Witness ==
  /\ RoundTrip
  /\ last.raised = "none"
  /\ src[1]["nyquistSampling"] = PyBool(FALSE)
  /\ last.pre["nyquistSampling"] = PyBool(FALSE)
  /\ attrs["nyquistSampling"] = PyBool(TRUE)
  /\ src[1]["randomSeed"].t = "int"
  /\ attrs["randomSeed"] = PyBool(TRUE)

\* The cell dimensions that stand on the second line of the structure files.
CellOf ==
  ("cell.xyz" :> <<PyFloat(10, 0), PyFloat(20, 0), PyFloat(305, 1)>>)
  @@ ("cell2.xyz" :> <<PyFloat(5, 0), PyFloat(625, 2), PyFloat(7, 0)>>)

\* C9: the path of such a structure file, assigned to the atoms file, is
\* stored and sets cellDimX, cellDimY, cellDimZ to the three numbers of the
\* second line; the empty string opens no file and changes nothing.
C9_AtomsFile ==
  (last.op = "set" /\ last.name = "filenameAtoms") =>
    /\ last.value = PyStr("") =>
         /\ last.opened = <<>>
         /\ last.raised = "none"
         /\ attrs = last.pre
    /\ last.value.v \in DOMAIN CellOf =>
         /\ last.raised = "none"
         /\ last.opened = <<last.value.v>>
         /\ attrs["cellDimX"] = CellOf[last.value.v][1]
         /\ attrs["cellDimY"] = CellOf[last.value.v][2]
         /\ attrs["cellDimZ"] = CellOf[last.value.v][3]
         /\ attrs["_filenameAtoms"] = last.value
         /\ SameBut(attrs, last.pre,
                    {"cellDimX", "cellDimY", "cellDimZ", "_filenameAtoms"})

\* cell.xyz was assigned over other cell dimensions, after which the empty
\* string can be seen to change nothing.
C9_Witness ==
  /\ last.op = "set"
  /\ last.name = "filenameAtoms"
  /\ last.value = PyStr("cell.xyz")
  /\ last.pre["cellDimZ"] # PyFloat(305, 1)
  /\ attrs["cellDimZ"] = PyFloat(305, 1)

RECURSIVE Join(_, _, _)
\* The text of the lines lo..hi, one after the other.
Join(lines, lo, hi) ==
  IF lo > hi THEN ""
  ELSE IF lo = hi THEN lines[lo]
  ELSE Join(lines, lo, (lo + hi) \div 2) \o Join(lines, (lo + hi) \div 2 + 1, hi)

NotExcluded(field) == ~Excluded(field)

InputFields == {"cellDimX", "cellDimY", "cellDimZ", "tileX", "tileY", "tileZ"}

\* C11: the file writeParameters makes holds no line for cellDimX, cellDimY,
\* cellDimZ, tileX, tileY or tileZ, so after a state is written and the file
\* read into another, the tile counts and cell dimensions of the reading
\* state are as they were before the read.
C11_InputLeftOut ==
  /\ (last.op = "writeParameters" /\ last.raised = "none") =>
       \A k \in 1..Len(fs[last.name]) :
         Occurs(" = ", fs[last.name][k]) # {} =>
           NameOf(fs[last.name][k]) \notin InputFields
  /\ RoundTrip =>
       \A field \in InputFields : SameField(attrs, last.pre, field)

====
